---- MODULE Spec2Model ----
(***************************************************************************)
(* Cost ledger (cost_monitor.py), pricing registry (model_config.py) and   *)
(* batch driver (pdf_parser.py) of biopaper-parser.                        *)
(*                                                                         *)
(* Costs are Python floats.  A float is modelled as an IEEE-754 binary64   *)
(* value: a 53-bit significand and a binary exponent, with every           *)
(* arithmetic result rounded to nearest, ties to even.  All values the     *)
(* program computes here are zero or positive normal numbers far from the  *)
(* overflow and underflow thresholds, so infinities, NaNs, subnormals and  *)
(* signs are not represented.                                              *)
(***************************************************************************)
EXTENDS Integers, Sequences, FiniteSets, TLC

(***************************************************************************)
(* Evaluation order.  TLC may evaluate an operator argument or a LET       *)
(* definition anew at each use.  Bind(F, a) is F(a) with a evaluated       *)
(* once: a bound variable ranging over a set holds a value.                *)
(***************************************************************************)
Bind(F(_), a) == CHOOSE r \in {F(va) : va \in {a}} : TRUE

Bind2(F(_, _), a, b) == CHOOSE r \in {F(va, vb) : va \in {a}, vb \in {b}} : TRUE

(***************************************************************************)
(* Binary64 arithmetic.  Unbounded naturals are little-endian sequences of *)
(* 14-bit limbs (index 1 is the least significant) without leading zero    *)
(* limbs, so that every intermediate product and sum stays below 2^31.     *)
(***************************************************************************)

\* Width of the binary64 significand (the float of cost_monitor.py:37).
MantissaBits == 53

\* Width and radix of a limb.
LimbBits == 14

Base == 16384

\* Limbs of the fraction a division produces before it rounds.
DivFracLimbs == 7

\* Radix of one long-division step (two steps make a limb).
HalfBase == 128

Pow2Table ==
    <<1, 2, 4, 8, 16, 32, 64, 128, 256, 512, 1024, 2048, 4096, 8192, 16384,
      32768, 65536, 131072, 262144, 524288, 1048576, 2097152, 4194304,
      8388608, 16777216, 33554432, 67108864, 134217728, 268435456,
      536870912, 1073741824>>

Pow2(n) == Pow2Table[n + 1]

Limb(l, i) == IF i >= 1 /\ i <= Len(l) THEN l[i] ELSE 0

\* l without its leading (high-order) zero limbs.
TrimLimbs(l0) ==
    Bind(LAMBDA l :
            Bind(LAMBDA nz :
                    IF nz = {} THEN <<>>
                    ELSE SubSeq(l, 1, CHOOSE i \in nz : \A j \in nz : j <= i),
                 {i \in 1..Len(l) : l[i] # 0}),
         l0)

\* Carry propagation from column i on, with carry c into it.
RECURSIVE CarryFrom(_, _, _)
CarryFrom(cols, i, c) ==
    IF i > Len(cols)
    THEN IF c = 0 THEN <<>>
         ELSE <<c % Base>> \o CarryFrom(cols, i, c \div Base)
    ELSE Bind(LAMBDA s : <<s % Base>> \o CarryFrom(cols, i + 1, s \div Base),
              cols[i] + c)

\* The limbs of the number whose column values are cols.
Carry(cols) == Bind(LAMBDA cv : CarryFrom(cv, 1, 0), cols)

LimbsOf(n) == Carry(<<n>>)

AddLimbs(a0, b0) ==
    Bind2(LAMBDA a, b :
            Carry([i \in 1..(IF Len(a) >= Len(b) THEN Len(a) ELSE Len(b)) |->
                      Limb(a, i) + Limb(b, i)]),
          a0, b0)

\* Limbs i.. of a - b given the borrow c into limb i, for a >= b.
RECURSIVE Borrow(_, _, _, _)
Borrow(a, b, i, c) ==
    IF i > Len(a) THEN <<>>
    ELSE Bind(LAMBDA d :
                 IF d < 0
                 THEN <<d + Base>> \o Borrow(a, b, i + 1, 1)
                 ELSE <<d>> \o Borrow(a, b, i + 1, 0),
              a[i] - Limb(b, i) - c)

\* a - b for a >= b.
SubLimbs(a0, b0) ==
    TrimLimbs(Bind2(LAMBDA a, b : Borrow(a, b, 1, 0), a0, b0))

\* a <= b
LeqLimbs(a0, b0) ==
    Bind2(LAMBDA a, b :
            IF Len(a) # Len(b) THEN Len(a) < Len(b)
            ELSE Bind(LAMBDA differ :
                        \/ differ = {}
                        \/ Bind(LAMBDA top : a[top] < b[top],
                                CHOOSE i \in differ : \A j \in differ : j <= i),
                      {i \in 1..Len(a) : a[i] # b[i]}),
          a0, b0)

\* The product of two significands (four limbs each).
MulLimbs(a0, b0) ==
    Bind2(LAMBDA a, b :
            TrimLimbs(Carry([col \in 1..(Len(a) + Len(b)) |->
                                Limb(a, 1) * Limb(b, col)
                              + Limb(a, 2) * Limb(b, col - 1)
                              + Limb(a, 3) * Limb(b, col - 2)
                              + Limb(a, 4) * Limb(b, col - 3)])),
          a0, b0)

ShiftLeftLimbs(l0, n0) ==
    Bind2(LAMBDA l, n :
            IF l = <<>> THEN <<>>
            ELSE [i \in 1..(n \div LimbBits) |-> 0]
                 \o Carry([i \in 1..Len(l) |-> l[i] * Pow2(n % LimbBits)]),
          l0, n0)

ShiftRightLimbs(l0, n0) ==
    Bind2(LAMBDA l, n :
            TrimLimbs([i \in 1..(Len(l) - (n \div LimbBits)) |->
                (Limb(l, i + (n \div LimbBits)) \div Pow2(n % LimbBits))
              + (Limb(l, i + (n \div LimbBits) + 1) % Pow2(n % LimbBits))
                    * Pow2(LimbBits - (n % LimbBits))]),
          l0, n0)

\* The number of bits of a number without leading zero limbs.
BitLen(l0) ==
    Bind(LAMBDA l :
            IF l = <<>> THEN 0
            ELSE LimbBits * (Len(l) - 1)
                 + Cardinality({j \in 0..(LimbBits - 1) : Pow2(j) <= l[Len(l)]}),
         l0)

\* Bit i of l (bit 0 is the least significant).
BitOf(l, i) == (Limb(l, (i \div LimbBits) + 1) \div Pow2(i % LimbBits)) % 2

\* Whether any of the bits 0..n-1 of l is set.
LowBitsSet(l, n) ==
    \/ \E i \in 1..(n \div LimbBits) : Limb(l, i) # 0
    \/ Limb(l, (n \div LimbBits) + 1) % Pow2(n % LimbBits) # 0

\* A float: the significand m (four limbs, 2^52 <= m < 2^53) and the
\* exponent e of its last bit, the value being m * 2^e; or zero.
FZero == [m |-> <<0, 0, 0, 0>>, e |-> 0]

IsZero(v) == v.m = <<0, 0, 0, 0>>

\* Whether dropping the low d bits of l (with, when sticky, a non-zero
\* amount below them) rounds the kept bits up: to nearest, ties to even.
RoundsUp(l, d, sticky, kept) ==
    /\ BitOf(l, d - 1) = 1
    /\ (sticky \/ LowBitsSet(l, d - 1) \/ kept[1] % 2 = 1)

\* The float of significand r (after rounding, possibly 2^53) and exponent e.
Renormalize(r0, e) ==
    Bind(LAMBDA r :
            IF BitLen(r) > MantissaBits
            THEN [m |-> ShiftRightLimbs(r, 1), e |-> e + 1]
            ELSE [m |-> r, e |-> e],
         r0)

\* Round the exact value l * 2^e (plus, when sticky, a non-zero amount
\* below the last bit) to the nearest float, ties to even.
RoundLimbs(l0, e, sticky) ==
    Bind(LAMBDA l :
            Bind(LAMBDA n :
                    IF n = 0 THEN FZero
                    ELSE IF n <= MantissaBits
                    THEN [m |-> ShiftLeftLimbs(l, MantissaBits - n),
                          e |-> e - (MantissaBits - n)]
                    ELSE Bind(LAMBDA kept :
                                Renormalize(
                                    IF RoundsUp(l, n - MantissaBits, sticky, kept)
                                    THEN AddLimbs(kept, <<1>>)
                                    ELSE kept,
                                    e + (n - MantissaBits)),
                              ShiftRightLimbs(l, n - MantissaBits)),
                 BitLen(l)),
         l0)

\* The significands of v and w as integers in the unit of the smaller
\* exponent.
Aligned(v, w) ==
    Bind(LAMBDA low :
            [v |-> ShiftLeftLimbs(v.m, v.e - low),
             w |-> ShiftLeftLimbs(w.m, w.e - low),
             e |-> low],
         IF v.e <= w.e THEN v.e ELSE w.e)

\* v + w
FAdd(v0, w0) ==
    Bind2(LAMBDA v, w :
            IF IsZero(v) THEN w
            ELSE IF IsZero(w) THEN v
            ELSE Bind(LAMBDA al :
                        RoundLimbs(TrimLimbs(AddLimbs(al.v, al.w)), al.e, FALSE),
                      Aligned(v, w)),
          v0, w0)

\* v * w
FMul(v0, w0) ==
    Bind2(LAMBDA v, w :
            IF IsZero(v) \/ IsZero(w) THEN FZero
            ELSE RoundLimbs(MulLimbs(v.m, w.m), v.e + w.e, FALSE),
          v0, w0)

\* Long division: n more limbs of the quotient of r / b (r < b <= 2^24),
\* least significant first, and the final remainder.
RECURSIVE DivFrac(_, _, _)
DivFrac(r, b, n) ==
    IF n = 0 THEN [q |-> <<>>, r |-> r]
    ELSE Bind2(LAMBDA r1, r2 :
                 Bind(LAMBDA rest :
                        [q |-> Append(rest.q,
                                      ((r * HalfBase) \div b) * HalfBase
                                      + (r1 * HalfBase) \div b),
                         r |-> rest.r],
                      DivFrac(r2, b, n - 1)),
               (r * HalfBase) % b,
               (((r * HalfBase) % b) * HalfBase) % b)

\* a / b for integers 0 <= a < 2^31, 0 < b <= 2^24 (Python's int / int,
\* which is correctly rounded; also the value of a decimal literal a/b with
\* b a power of ten).
FDivInt(a0, b0) ==
    Bind2(LAMBDA a, b :
            IF a = 0 THEN FZero
            ELSE Bind(LAMBDA d :
                        RoundLimbs(TrimLimbs(d.q \o LimbsOf(a \div b)),
                                   0 - DivFracLimbs * LimbBits, d.r # 0),
                      DivFrac(a % b, b, DivFracLimbs)),
          a0, b0)

\* Whether v and w differ by at most 2^-n of the larger of them.
Within(v0, w0, n) ==
    Bind2(LAMBDA v, w :
            IF IsZero(v) \/ IsZero(w) THEN IsZero(v) /\ IsZero(w)
            ELSE Bind(LAMBDA al :
                        IF LeqLimbs(al.v, al.w)
                        THEN LeqLimbs(ShiftLeftLimbs(SubLimbs(al.w, al.v), n), al.w)
                        ELSE LeqLimbs(ShiftLeftLimbs(SubLimbs(al.v, al.w), n), al.v),
                      Aligned(v, w)),
          v0, w0)

(***************************************************************************)
(* model_config.py: the pricing registry.                                  *)
(***************************************************************************)

\* The value of the decimal literal milli/1000 (prices have at most three
\* decimals): the float nearest to it.
Literal(milli) == FDivInt(milli, 1000)

ModelPricing(inp, cached, outp) ==
    [input_price        |-> Literal(inp),
     cached_input_price |-> Literal(cached),
     output_price       |-> Literal(outp)]

MODEL_PRICING ==
    [name \in {"gpt-4.1", "gpt-4.1-mini", "gpt-4.1-nano", "o3", "o4-mini"} |->
        CASE name = "gpt-4.1"      -> ModelPricing(2000, 500, 8000)
          [] name = "gpt-4.1-mini" -> ModelPricing(400, 100, 1600)
          [] name = "gpt-4.1-nano" -> ModelPricing(100, 25, 400)
          [] name = "o3"           -> ModelPricing(10000, 2500, 40000)
          [] name = "o4-mini"      -> ModelPricing(1100, 275, 4400)]

\* An optional value: None is <<>>, a present value v is <<v>>.
None == <<>>

Some(v) == <<v>>

\* get_model_info: raises ValueError for a name outside the registry.
GetModelInfo(model_name) ==
    IF model_name \notin DOMAIN MODEL_PRICING
    THEN [raised |-> "ValueError", value |-> None]
    ELSE [raised |-> "", value |-> Some(MODEL_PRICING[model_name])]

(***************************************************************************)
(* cost_monitor.py: the cost ledger.                                       *)
(***************************************************************************)

\* Python dicts are functions; d.get(key, default) and d[key] = v.
EmptyDict == <<>>

DictGet(d, key, default) == IF key \in DOMAIN d THEN d[key] ELSE default

DictSet(d, key, v) ==
    [kk \in DOMAIN d \cup {key} |-> IF kk = key THEN v ELSE d[kk]]

\* A file path as the callers pass it: a str, or a pathlib object (main's
\* glob).  Equal text of different kinds are different dict keys.
StrPath(dir, stem) == [kind |-> "str", dir |-> dir, stem |-> stem]

PosixPath(dir, stem) == [kind |-> "PosixPath", dir |-> dir, stem |-> stem]

\* CostMonitor.__init__
NewCostMonitor ==
    [total_cost    |-> FZero,
     cost_by_model |-> EmptyDict,
     cost_by_file  |-> EmptyDict]

TokensPerMillion == 1000000

\* CostMonitor.calculate_cost with integer division in place of true
\* division.
CalculateCostFloorDiv(model_info, input_tokens, output_tokens, is_cached) ==
    LET input_cost ==
            FMul(FDivInt(input_tokens \div TokensPerMillion, 1),
                 IF is_cached THEN model_info.cached_input_price
                              ELSE model_info.input_price)
        output_cost ==
            FMul(FDivInt(output_tokens \div TokensPerMillion, 1),
                 model_info.output_price)
    IN  FAdd(input_cost, output_cost)

\* CostMonitor.calculate_cost ignoring is_cached.
CalculateCostUncached(model_info, input_tokens, output_tokens, is_cached) ==
    FAdd(FMul(FDivInt(input_tokens, TokensPerMillion), model_info.input_price),
         FMul(FDivInt(output_tokens, TokensPerMillion), model_info.output_price))

\* CostMonitor.calculate_cost
CalculateCost(model_info, input_tokens, output_tokens, is_cached) ==
    LET input_cost ==
            FMul(FDivInt(input_tokens, TokensPerMillion),
                 IF is_cached THEN model_info.cached_input_price
                              ELSE model_info.input_price)
        output_cost ==
            FMul(FDivInt(output_tokens, TokensPerMillion),
                 model_info.output_price)
    IN  FAdd(input_cost, output_cost)

\* self.cost_by_model[model_name] = cost  (the accumulation dropped)
AddToModelOverwrite(cost_by_model, model_name, cost) ==
    DictSet(cost_by_model, model_name, cost)

\* self.total_cost += cost
AddToTotal(total_cost, cost) == FAdd(total_cost, cost)

\* self.cost_by_model[model_name] = self.cost_by_model.get(model_name, 0) + cost
AddToModel(cost_by_model, model_name, cost) ==
    Bind(LAMBDA sum : DictSet(cost_by_model, model_name, sum),
         FAdd(DictGet(cost_by_model, model_name, FZero), cost))

\* self.cost_by_file[file_path] = self.cost_by_file.get(file_path, 0) + cost
AddToFile(cost_by_file, file_path, cost) ==
    Bind(LAMBDA sum : DictSet(cost_by_file, file_path, sum),
         FAdd(DictGet(cost_by_file, file_path, FZero), cost))

\* CostMonitor.log_request: the exception raised ("" for none), the value
\* returned and the monitor afterwards.  model_info is None or Some(record).
LogRequest(self, model_name, file_path, input_tokens, output_tokens, is_cached, model_info) ==
    Bind(LAMBDA info :
            IF info.raised # ""
            THEN [raised |-> info.raised, ret |-> FZero, self |-> self]
            ELSE Bind(LAMBDA cost :
                        [raised |-> "",
                         ret    |-> cost,
                         self   |->
                            [total_cost    |-> AddToTotal(self.total_cost, cost),
                             cost_by_model |-> AddToModel(self.cost_by_model,
                                                          model_name, cost),
                             cost_by_file  |-> AddToFile(self.cost_by_file,
                                                         file_path, cost)]],
                      CalculateCost(info.value[1], input_tokens, output_tokens,
                                    is_cached)),
         IF model_info = None
         THEN GetModelInfo(model_name)
         ELSE [raised |-> "", value |-> model_info])

\* A reference to one of the monitor's own dict objects (an alias, not a
\* copy), and what it shows when read through.
Ref(field) == [ref |-> field]

Deref(r, self) == self[r.ref]

\* datetime.now().isoformat(): a string determined by the clock reading.
IsoFormat(t) == [iso |-> t]

\* CostMonitor.get_summary at clock reading t: the returned dict holds the
\* float total_cost by value and the two dicts by reference.
GetSummary(self, t) ==
    [total_cost    |-> self.total_cost,
     cost_by_model |-> Ref("cost_by_model"),
     cost_by_file  |-> Ref("cost_by_file"),
     timestamp     |-> IsoFormat(t)]

\* What a holder of a summary reads from it.
ReadSummary(summary, self) ==
    [total_cost    |-> summary.total_cost,
     cost_by_model |-> Deref(summary.cost_by_model, self),
     cost_by_file  |-> Deref(summary.cost_by_file, self),
     timestamp     |-> summary.timestamp]

\* json: a dict key must be str, int, float, bool or None; a pathlib key
\* makes the encoder raise TypeError.
JsonKeyOk(key) == key.kind = "str"

\* The content of a destination file: absent, a complete JSON document, or
\* the text written before the encoder raised (not a JSON document).
FileAbsent == [state |-> "absent", doc |-> None]

FileTruncated == [state |-> "truncated", doc |-> None]

FileJson(doc) == [state |-> "json", doc |-> Some(doc)]

\* json.dump(summary, f, indent=2) into a file opened with 'w': the open
\* truncates, the encoder streams the document and raises at the first key
\* it cannot encode.  Floats are written as their repr, the shortest decimal
\* that reads back as the same float, and strings as themselves.
JsonDump(doc) ==
    IF \A key \in DOMAIN doc.cost_by_file : JsonKeyOk(key)
    THEN [raised |-> "", file |-> FileJson(doc)]
    ELSE [raised |-> "TypeError", file |-> FileTruncated]

\* CostMonitor.save_summary at clock reading t.
SaveSummary(self, t) == JsonDump(ReadSummary(GetSummary(self, t), self))

\* json.load of a destination: the document, or None when there is none.
JsonLoad(file) == file.doc

(***************************************************************************)
(* State.                                                                  *)
(***************************************************************************)
VARIABLES
    monitor,     \* the CostMonitor object: total_cost and its two dicts
    held,        \* the dict the latest get_summary call returned to its caller
    disk,        \* the content of the cost summary destination file
    now,         \* the wall clock
    last,        \* the latest call on the monitor and the ledger before it
    calls,       \* the log_request calls that returned, in order, with results
    made,        \* how many calls of each kind were made
    pdf_paths,   \* process_pdfs: the documents of the batch run
    model_name,  \* process_pdfs: the model the run was started with
    idx,         \* process_pdfs: how many documents the loop has completed
    pc,          \* process_pdfs: "idle", "loop", "done" or "raised"
    docs,        \* process_pdfs: per completed document, what happened
    tables,      \* the result tables on disk, by file name
    saves,       \* process_pdfs: how many times save_summary was called
    call         \* a calculate_cost call: its arguments and its result

apiVars == <<held, last, calls, made>>

batchVars == <<pdf_paths, model_name, idx, pc, docs, tables, saves>>

vars == <<monitor, held, disk, now, last, calls, made, pdf_paths, model_name,
          idx, pc, docs, tables, saves, call>>

(***************************************************************************)
(* Bounds and input choices.                                               *)
(***************************************************************************)
MaxLogs == 2

MaxSummaries == 1

MaxSaves == 1

MaxClock == 1

MaxDocs == 2

MaxRecords == 1

MaxSmallTokens == 3

\* Model names callers pass: two registered ones and one that is not.
ModelNames == {"gpt-4.1-mini", "o3", "gpt-5"}

\* What a caller passes as model_info: nothing, or a price record.
ModelInfoArgs == {None, Some(MODEL_PRICING["gpt-4.1-nano"])}

ApiFiles == {StrPath("", "a"), PosixPath("", "b")}

ApiInputTokens == {1}

ApiOutputTokens == {2}

\* A cost summary left at the destination by an earlier run.
StaleFile ==
    FileJson([total_cost    |-> Literal(1200),
              cost_by_model |-> EmptyDict,
              cost_by_file  |-> EmptyDict,
              timestamp     |-> IsoFormat(0)])

IdleCall ==
    [pc |-> "idle", model |-> "", a |-> 0, b |-> 0, output_tokens |-> 0,
     is_cached |-> FALSE, ret |-> FZero]

NewLast ==
    [op |-> "new", prev |-> "new", model_name |-> "", given |-> FALSE,
     raised |-> "", before |-> NewCostMonitor]

\* Reading datetime.now(): the clock has advanced by some amount since it
\* was last read, possibly by less than its resolution.
ClockReadings == {t \in now..(now + 1) : t <= MaxClock}

(***************************************************************************)
(* The CostMonitor interface under arbitrary call sequences.               *)
(***************************************************************************)
InitLedger ==
    /\ monitor = NewCostMonitor
    /\ held = None
    /\ disk = FileAbsent
    /\ now = 0
    /\ last = NewLast
    /\ calls = <<>>
    /\ made = [log |-> 0, summary |-> 0, save |-> 0]
    /\ pdf_paths = <<>>
    /\ model_name = ""
    /\ idx = 0
    /\ pc = "idle"
    /\ docs = <<>>
    /\ tables = EmptyDict
    /\ saves = 0
    /\ call = IdleCall

Init ==
    /\ monitor = NewCostMonitor
    /\ held = None
    /\ disk \in {FileAbsent, StaleFile}
    /\ now = 0
    /\ last = NewLast
    /\ calls = <<>>
    /\ made = [log |-> 0, summary |-> 0, save |-> 0]
    /\ pdf_paths = <<>>
    /\ model_name = ""
    /\ idx = 0
    /\ pc = "idle"
    /\ docs = <<>>
    /\ tables = EmptyDict
    /\ saves = 0
    /\ call = IdleCall

\* monitor.log_request(name, file_path, input_tokens, output_tokens,
\*                     is_cached[, model_info])
LogRequestCall ==
    /\ pc = "idle" /\ call.pc = "idle"
    /\ made.log < MaxLogs
    /\ \E name \in ModelNames, file_path \in ApiFiles,
          input_tokens \in ApiInputTokens, output_tokens \in ApiOutputTokens,
          is_cached \in BOOLEAN, model_info \in ModelInfoArgs :
          \E r \in {LogRequest(monitor, name, file_path, input_tokens,
                               output_tokens, is_cached, model_info)} :
              /\ monitor' = r.self
              /\ calls' = IF r.raised = ""
                          THEN Append(calls, [model_name |-> name,
                                              file_path  |-> file_path,
                                              cost       |-> r.ret])
                          ELSE calls
              /\ last' = [op |-> "log_request", prev |-> last.op,
                          model_name |-> name, given |-> model_info # None,
                          raised |-> r.raised, before |-> monitor]
    /\ made' = [made EXCEPT !.log = @ + 1]
    /\ UNCHANGED <<held, disk, now, call>>
    /\ UNCHANGED batchVars

\* held = monitor.get_summary()
GetSummaryCall ==
    /\ pc = "idle" /\ call.pc = "idle"
    /\ made.summary < MaxSummaries
    /\ \E t \in ClockReadings :
          /\ now' = t
          /\ held' = Some([summary |-> GetSummary(monitor, t),
                           at_call |-> ReadSummary(GetSummary(monitor, t),
                                                   monitor)])
    /\ last' = [op |-> "get_summary", prev |-> last.op, model_name |-> "",
                given |-> FALSE, raised |-> "", before |-> monitor]
    /\ made' = [made EXCEPT !.summary = @ + 1]
    /\ UNCHANGED <<monitor, disk, calls, call>>
    /\ UNCHANGED batchVars

\* monitor.save_summary(destination)
SaveSummaryCall ==
    /\ pc = "idle" /\ call.pc = "idle"
    /\ made.save < MaxSaves
    /\ \E t \in ClockReadings :
          \E r \in {SaveSummary(monitor, t)} :
              /\ now' = t
              /\ disk' = r.file
              /\ last' = [op |-> "save_summary", prev |-> last.op,
                          model_name |-> "", given |-> FALSE,
                          raised |-> r.raised, before |-> monitor]
    /\ made' = [made EXCEPT !.save = @ + 1]
    /\ UNCHANGED <<monitor, held, calls, call>>
    /\ UNCHANGED batchVars

Next == LogRequestCall \/ GetSummaryCall \/ SaveSummaryCall

Spec == Init /\ [][Next]_vars

\* Sequences of log_request calls alone.
NextLedger == LogRequestCall

SpecLedger == InitLedger /\ [][NextLedger]_vars

(***************************************************************************)
(* calculate_cost as a function of its arguments.                          *)
(***************************************************************************)
TokenChoices == (0..MaxSmallTokens) \cup {500000, 1000000, 2000000}

OutputTokenChoices == {0, 1, 500000}

InitCost ==
    /\ monitor = NewCostMonitor
    /\ held = None
    /\ disk = FileAbsent
    /\ now = 0
    /\ last = NewLast
    /\ calls = <<>>
    /\ made = [log |-> 0, summary |-> 0, save |-> 0]
    /\ pdf_paths = <<>>
    /\ model_name = ""
    /\ idx = 0
    /\ pc = "idle"
    /\ docs = <<>>
    /\ tables = EmptyDict
    /\ saves = 0
    /\ call \in [pc : {"args"}, model : DOMAIN MODEL_PRICING,
                 a : TokenChoices, b : TokenChoices,
                 output_tokens : OutputTokenChoices, is_cached : BOOLEAN,
                 ret : {FZero}]

\* call.ret = monitor.calculate_cost(MODEL_PRICING[model], a, output_tokens,
\*                                   is_cached)
CalculateCostCall ==
    /\ call.pc = "args"
    /\ call' = [call EXCEPT
                   !.pc = "done",
                   !.ret = CalculateCost(MODEL_PRICING[call.model], call.a,
                                         call.output_tokens, call.is_cached)]
    /\ UNCHANGED <<monitor, disk, now>>
    /\ UNCHANGED apiVars
    /\ UNCHANGED batchVars

NextCost == CalculateCostCall

SpecCost == InitCost /\ [][NextCost]_vars

(***************************************************************************)
(* pdf_parser.py: process_single_pdf and the batch run process_pdfs.       *)
(***************************************************************************)

\* len(prompt.split()) for the fixed prompt of process_single_pdf.
PromptWords == 219

\* What the environment does for one document: whether the file can be
\* read; whether the remote call raises or returns a response; whether the
\* response carries parsed output (Some(number of records)) or none; and
\* the number of words of the response text.
OutputWordChoices == {1, 2}

Envs ==
    {[readable |-> FALSE, remote |-> "none", parsed |-> None, output_words |-> 0],
     [readable |-> TRUE, remote |-> "error", parsed |-> None, output_words |-> 0]}
    \cup [readable : {TRUE}, remote : {"response"},
          parsed : {None} \cup {Some(n) : n \in 0..MaxRecords},
          output_words : OutputWordChoices]

NoResult == [exception |-> TRUE]

\* The dict the except clause returns.
ErrorResult(pdf_path) == [error |-> "exception", file |-> pdf_path]

\* The dict process_single_pdf returns after a response and its log_request.
ResponseResult(env, cost) ==
    IF env.parsed # None
    THEN [data |-> env.parsed[1], cost |-> cost]
    ELSE [error |-> "No data parsed from response",
          raw_response |-> env.output_words, cost |-> cost]

\* process_single_pdf with the cost logged ahead of the remote call.
ProcessSinglePdfChargeFirst(self, pdf_path, name, env) ==
    IF ~env.readable
    THEN [raised |-> "OSError", result |-> NoResult, self |-> self]
    ELSE Bind(LAMBDA info :
                IF info.raised # ""
                THEN [raised |-> info.raised, result |-> NoResult, self |-> self]
                ELSE Bind(LAMBDA r :
                            IF env.remote = "error"
                            THEN [raised |-> "", result |-> ErrorResult(pdf_path),
                                  self |-> r.self]
                            ELSE [raised |-> "",
                                  result |-> ResponseResult(env, r.ret),
                                  self |-> r.self],
                          LogRequest(self, name, pdf_path, PromptWords,
                                     env.output_words, FALSE, info.value)),
              GetModelInfo(name))

\* process_single_pdf: the exception that leaves it ("" for none), the dict
\* it returns and the monitor afterwards.  Reading the file and looking up
\* the model come before the try block; the remote call and log_request are
\* inside it.
ProcessSinglePdf(self, pdf_path, name, env) ==
    IF ~env.readable
    THEN [raised |-> "OSError", result |-> NoResult, self |-> self]
    ELSE Bind(LAMBDA info :
                IF info.raised # ""
                THEN [raised |-> info.raised, result |-> NoResult, self |-> self]
                ELSE IF env.remote = "error"
                THEN [raised |-> "", result |-> ErrorResult(pdf_path),
                      self |-> self]
                ELSE Bind(LAMBDA r :
                            IF r.raised # ""
                            THEN [raised |-> "", result |-> ErrorResult(pdf_path),
                                  self |-> r.self]
                            ELSE [raised |-> "",
                                  result |-> ResponseResult(env, r.ret),
                                  self |-> r.self],
                          LogRequest(self, name, pdf_path, PromptWords,
                                     env.output_words, FALSE, info.value)),
              GetModelInfo(name))

\* f"{os.path.splitext(os.path.basename(pdf_path))[0]}_{output_file}"
OutputName(pdf_path) == [stem |-> pdf_path.stem, suffix |-> "_results.csv"]

\* The table process_pdfs writes for a returned dict, had it written one
\* for every dict without an error.
TableForAlways(pdf_path, result) ==
    IF "error" \in DOMAIN result THEN None
    ELSE Some([name |-> OutputName(pdf_path), rows |-> result.data])

\* The table process_pdfs writes for a returned dict: none for an error,
\* none ("No data extracted") for an empty record list.
TableFor(pdf_path, result) ==
    IF "error" \in DOMAIN result THEN None
    ELSE IF result.data > 0
    THEN Some([name |-> OutputName(pdf_path), rows |-> result.data])
    ELSE None

\* The file lists main passes: paths given as arguments (str, any
\* directory, repeats possible) or the glob of the working directory
\* (pathlib objects, no repeats).
ArgPaths == {StrPath("d1", "x"), StrPath("d2", "x")}

GlobPaths == {PosixPath("", "x"), PosixPath("", "y")}

SeqsUpTo(S, n) == UNION {[1..len -> S] : len \in 0..n}

BatchInputs ==
    SeqsUpTo(ArgPaths, MaxDocs)
    \cup {q \in SeqsUpTo(GlobPaths, MaxDocs) :
             \A i, j \in 1..Len(q) : q[i] = q[j] => i = j}

BatchModels == {"gpt-4.1-nano", "gpt-5"}

InitBatch ==
    /\ monitor = NewCostMonitor
    /\ held = None
    /\ disk = FileAbsent
    /\ now = 0
    /\ last = NewLast
    /\ calls = <<>>
    /\ made = [log |-> 0, summary |-> 0, save |-> 0]
    /\ pdf_paths \in BatchInputs
    /\ model_name \in BatchModels
    /\ idx = 0
    /\ pc = "loop"
    /\ docs = <<>>
    /\ tables = EmptyDict
    /\ saves = 0
    /\ call = IdleCall

\* One iteration of the loop of process_pdfs.
ProcessDocument ==
    /\ pc = "loop"
    /\ idx < Len(pdf_paths)
    /\ \E env \in Envs :
          \E r \in {ProcessSinglePdf(monitor, pdf_paths[idx + 1], model_name,
                                     env)} :
             \E table \in {IF r.raised # "" THEN None
                           ELSE TableFor(pdf_paths[idx + 1], r.result)} :
                /\ docs' = Append(docs, [path   |-> pdf_paths[idx + 1],
                                         env    |-> env,
                                         raised |-> r.raised,
                                         result |-> r.result,
                                         before |-> monitor,
                                         after  |-> r.self,
                                         wrote  |-> table])
                /\ monitor' = r.self
                /\ pc' = IF r.raised # "" THEN "raised" ELSE pc
                /\ idx' = IF r.raised # "" THEN idx ELSE idx + 1
                /\ tables' = IF table = None THEN tables
                             ELSE DictSet(tables, table[1].name,
                                          [rows   |-> table[1].rows,
                                           source |-> pdf_paths[idx + 1]])
    /\ UNCHANGED <<disk, now, pdf_paths, model_name, saves, call>>
    /\ UNCHANGED apiVars

\* After the loop: cost_monitor.save_summary().
SaveAfterLoop ==
    /\ pc = "loop"
    /\ idx = Len(pdf_paths)
    /\ \E t \in ClockReadings :
          \E r \in {SaveSummary(monitor, t)} :
             /\ now' = t
             /\ disk' = r.file
             /\ pc' = IF r.raised = "" THEN "done" ELSE "raised"
    /\ saves' = saves + 1
    /\ UNCHANGED <<monitor, pdf_paths, model_name, idx, docs, tables, call>>
    /\ UNCHANGED apiVars

NextBatch == ProcessDocument \/ SaveAfterLoop

SpecBatch == InitBatch /\ [][NextBatch]_vars

(***************************************************************************)
(* Properties.                                                             *)
(***************************************************************************)
Range(f) == {f[i] : i \in DOMAIN f}

\* The float sum of the costs of a sequence of calls, accumulated from 0.0
\* in call order.
RECURSIVE SumCosts(_)
SumCosts(cs) ==
    IF cs = <<>> THEN FZero
    ELSE FAdd(SumCosts(SubSeq(cs, 1, Len(cs) - 1)), cs[Len(cs)].cost)

CallsForModel(name) == SelectSeq(calls, LAMBDA c : c.model_name = name)

CallsForFile(file_path) == SelectSeq(calls, LAMBDA c : c.file_path = file_path)

\* C1: a log_request naming a model that is not in the registry raises
\* ValueError and leaves the ledger as it was, whether or not a price record
\* was supplied with the call.
C1_UnknownModelRejected ==
    (last.op = "log_request" /\ last.model_name \notin DOMAIN MODEL_PRICING)
        => (last.raised = "ValueError" /\ monitor = last.before)

\* C3: after any sequence of log_request calls the grand total is the sum
\* of the returned costs, each model's total the sum of the returned costs
\* of the calls naming it, each file's total likewise; a call returns its
\* own cost, the amount by which the grand total grew.
C3_LedgerSumsReturnedCosts ==
    /\ monitor.total_cost = SumCosts(calls)
    /\ DOMAIN monitor.cost_by_model = {c.model_name : c \in Range(calls)}
    /\ \A name \in DOMAIN monitor.cost_by_model :
          monitor.cost_by_model[name] = SumCosts(CallsForModel(name))
    /\ DOMAIN monitor.cost_by_file = {c.file_path : c \in Range(calls)}
    /\ \A file_path \in DOMAIN monitor.cost_by_file :
          monitor.cost_by_file[file_path] = SumCosts(CallsForFile(file_path))
    /\ (last.op = "log_request" /\ last.raised = "")
          => monitor.total_cost
                = FAdd(last.before.total_cost, calls[Len(calls)].cost)

\* C3 witness: two calls with non-zero cost for the same model and two
\* different files have returned.
C3_TwoCallsSameModel ==
    /\ Len(calls) = 2
    /\ calls[1].model_name = calls[2].model_name
    /\ calls[1].file_path # calls[2].file_path
    /\ ~IsZero(calls[1].cost) /\ ~IsZero(calls[2].cost)

\* C4: what a caller reads from a summary it holds stays what it read when
\* get_summary returned it, whatever is logged afterwards.
C4_SummaryIsSnapshot ==
    held # None => ReadSummary(held[1].summary, monitor) = held[1].at_call

\* C5: after a summary is taken and then persisted, the destination holds a
\* document that reloads equal to that summary in total, per-model map,
\* per-file map and timestamp, replacing whatever the destination held.
C5_PersistRoundTrip ==
    (last.op = "save_summary" /\ last.prev = "get_summary")
        => /\ JsonLoad(disk) # None
           /\ JsonLoad(disk) = Some(held[1].at_call)

\* The formula of calculate_cost evaluated in binary64 for the call's model.
CostFormula(c, tokens) ==
    FAdd(FMul(FDivInt(tokens, 1000000),
              IF c.is_cached THEN MODEL_PRICING[c.model].cached_input_price
                             ELSE MODEL_PRICING[c.model].input_price),
         FMul(FDivInt(c.output_tokens, 1000000),
              MODEL_PRICING[c.model].output_price))

\* 1,000,000 input and 500,000 output tokens at the prices of gpt-4.1-mini.
IsExampleOne ==
    /\ call.model = "gpt-4.1-mini" /\ ~call.is_cached
    /\ call.a = 1000000 /\ call.output_tokens = 500000

\* 2,000,000 cached input tokens and no output at the prices of gpt-4.1-mini.
IsExampleTwo ==
    /\ call.model = "gpt-4.1-mini" /\ call.is_cached
    /\ call.a = 2000000 /\ call.output_tokens = 0

\* The float 1.2000000000000002, one unit in the last place above 1.2.
NextAboveLiteral1200 == [m |-> <<13108, 3276, 13107, 1228>>, e |-> -52]

\* C6 as stated: calculate_cost returns (in/1e6)*inPrice + (out/1e6)*outPrice
\* with the cached price in use when is_cached, changes no ledger, and
\* yields 1.20 for the first example and 0.20 for the second.
C6_CostFormulaExamplesExact ==
    call.pc = "done"
        => /\ call.ret = CostFormula(call, call.a)
           /\ monitor = NewCostMonitor
           /\ IsExampleOne => call.ret = Literal(1200)
           /\ IsExampleTwo => call.ret = Literal(200)

\* C6 amended: calculate_cost returns that formula evaluated in binary64
\* and changes no ledger; the first example yields 1.2000000000000002, the
\* second yields the float 0.2.
C6_CostFormulaBinary64 ==
    call.pc = "done"
        => /\ call.ret = CostFormula(call, call.a)
           /\ monitor = NewCostMonitor
           /\ IsExampleOne => call.ret = NextAboveLiteral1200
           /\ IsExampleTwo => call.ret = Literal(200)

\* C6 witness: the first example has been computed.
C6_ExampleOneComputed == call.pc = "done" /\ IsExampleOne

\* The case of C7: an uncached call without output tokens, computed.
InputOnlyDone == call.pc = "done" /\ call.output_tokens = 0 /\ ~call.is_cached

CostOfInput(tokens) ==
    CalculateCost(MODEL_PRICING[call.model], tokens, 0, FALSE)

\* C7 as stated: for input token counts a and b the cost of a + b tokens
\* equals the cost of a plus the cost of b.
C7_InputAdditiveExact ==
    InputOnlyDone
        => CostOfInput(call.a + call.b)
              = FAdd(call.ret, CostOfInput(call.b))

\* C7 amended: the cost of a + b input tokens and the sum of the costs of a
\* and of b differ by at most 2^-50 of the larger of the two.
C7_InputAdditiveRounded ==
    InputOnlyDone
        => Within(CostOfInput(call.a + call.b),
                  FAdd(call.ret, CostOfInput(call.b)), 50)

\* C7 witness: a pair a, b whose costs do not add up exactly.
C7_RoundingCase ==
    /\ InputOnlyDone
    /\ CostOfInput(call.a + call.b) # FAdd(call.ret, CostOfInput(call.b))

Completed(d) == d.raised = ""

Succeeded(d) == Completed(d) /\ "error" \notin DOMAIN d.result

\* C2: no failure of a single document ends the batch: the loop never
\* stops with documents left.
C2_FailureNeverAbortsBatch == ~(pc = "raised" /\ idx < Len(pdf_paths))

\* C8: the cost summary is written exactly once, after the last document,
\* and it holds the ledger of the whole run, failures included.
C8_SummaryWrittenOnceAtEnd ==
    /\ saves <= 1
    /\ saves = 1 => idx = Len(pdf_paths)
    /\ pc \in {"done", "raised"}
          => /\ saves = 1
             /\ JsonLoad(disk) # None
             /\ JsonLoad(disk)[1].total_cost = monitor.total_cost
             /\ JsonLoad(disk)[1].cost_by_model = monitor.cost_by_model
             /\ JsonLoad(disk)[1].cost_by_file = monitor.cost_by_file

\* C9 as stated: every document processed without failure gets its own
\* table named from its base name with one row per record, a table with no
\* rows when it has no records.
C9_TableForEverySuccess ==
    \A i \in 1..Len(docs) :
        Succeeded(docs[i])
            => docs[i].wrote = Some([name |-> OutputName(docs[i].path),
                                     rows |-> docs[i].result.data])

\* The documents that wrote the table of a given name.
Writers(name) ==
    {i \in 1..Len(docs) : docs[i].wrote # None /\ docs[i].wrote[1].name = name}

LastWriter(name) == CHOOSE i \in Writers(name) : \A j \in Writers(name) : j <= i

\* C9 amended: a document processed without failure that has at least one
\* record gets a table named from its base name with one row per record; a
\* document with no records, or one that failed, gets none; a table holds
\* what the last document of its base name wrote.
C9_TableForEveryNonEmptySuccess ==
    /\ \A i \in 1..Len(docs) :
          IF Succeeded(docs[i]) /\ docs[i].result.data > 0
          THEN docs[i].wrote = Some([name |-> OutputName(docs[i].path),
                                     rows |-> docs[i].result.data])
          ELSE docs[i].wrote = None
    /\ DOMAIN tables = {OutputName(docs[i].path) :
                           i \in {j \in 1..Len(docs) : docs[j].wrote # None}}
    /\ \A name \in DOMAIN tables :
          tables[name] = [rows   |-> docs[LastWriter(name)].result.data,
                          source |-> docs[LastWriter(name)].path]

\* C9 witness: one document succeeded with no records and wrote nothing,
\* another succeeded with records and wrote its table.
C9_EmptyAndNonEmptySuccess ==
    /\ \E i \in 1..Len(docs) :
          Succeeded(docs[i]) /\ docs[i].result.data = 0 /\ docs[i].wrote = None
    /\ \E i \in 1..Len(docs) : docs[i].wrote # None

\* C10: a document whose remote call fails yields a result with an error
\* and its file path, and the ledger is as before: no total grows and no
\* file entry appears; the ledger changes for a document only when its
\* remote call returned a response.
C10_RemoteFailureChargesNothing ==
    /\ \A i \in 1..Len(docs) :
          (Completed(docs[i]) /\ docs[i].env.remote = "error")
              => /\ "error" \in DOMAIN docs[i].result
                 /\ docs[i].result.file = docs[i].path
                 /\ docs[i].after = docs[i].before
                 /\ DOMAIN docs[i].after.cost_by_file
                       = DOMAIN docs[i].before.cost_by_file
    /\ \A i \in 1..Len(docs) :
          docs[i].after # docs[i].before => docs[i].env.remote = "response"

\* C10 witness: a remote call failed for a document when the ledger already
\* held the cost of an earlier one.
C10_FailureAfterCharge ==
    \E i \in 1..Len(docs) :
        /\ Completed(docs[i]) /\ docs[i].env.remote = "error"
        /\ ~IsZero(docs[i].before.total_cost)

====
